---------------------------- MODULE Spec2Model ----------------------------
(***************************************************************************)
(* Model of scripts/template-evolver.py: a single-pass batch job that      *)
(* aggregates template modification events, outcome events and confidence  *)
(* scores, and emits version-bump proposals for templates that pass fixed  *)
(* thresholds.                                                             *)
(*                                                                         *)
(* Representation                                                          *)
(*  - a Python dict is a sequence of [k, v] entries in insertion order;    *)
(*  - a JSON object is a TLA+ record, an absent key is an absent field;    *)
(*  - a float that the program computes as a quotient of two integers is   *)
(*    the exact fraction [n, d]; the comparisons against 0.70 and 0.75 are *)
(*    exact for the quotients of small integers (IEEE division is          *)
(*    correctly rounded, so c/t >= 0.7 iff 10c >= 7t);                     *)
(*  - a line of a JSONL file is a record whose kind says what strip() and  *)
(*    json.loads() make of its text.                                       *)
(***************************************************************************)
EXTENDS Integers, Sequences, FiniteSets, TLC

(* ------------------------------ bounds -------------------------------- *)
\* longest modification log explored by the aggregator specification
MaxAggLines == 3
\* longest modification log explored by the whole-run specification
MaxModLines == 2
\* longest outcome log explored by the whole-run specification
MaxOutcomeLines == 2

(* ------------------------- values and helpers ------------------------- *)
\* Python's None, also the result of dict.get on an absent key
None == "<None>"
\* a path that does not exist on disk
NoFile == [exists |-> FALSE, corrupt |-> FALSE, content |-> <<>>]
\* a file that exists with the given content
File(content) == [exists |-> TRUE, corrupt |-> FALSE, content |-> content]
\* a file that exists and does not hold a JSON document
CorruptFile == [exists |-> TRUE, corrupt |-> TRUE, content |-> <<>>]

\* exact fraction n/d, d > 0
Rat(n, d) == [n |-> n, d |-> d]
RatLt(a, b) == a.n * b.d < b.n * a.d
RatGe(a, b) == ~RatLt(a, b)
RatEq(a, b) == a.n * b.d = b.n * a.d

\* all sequences over S of length at most n
SeqsUpTo(S, n) == UNION {[1..k -> S] : k \in 0..n}

\* dict helpers (insertion-ordered mapping)
Has(d, key) == \E j \in 1..Len(d) : d[j].k = key
IndexOf(d, key) == CHOOSE j \in 1..Len(d) : d[j].k = key
DictGet(d, key, default) == IF Has(d, key) THEN d[IndexOf(d, key)].v ELSE default
DictPut(d, key, val) ==
    IF Has(d, key) THEN [d EXCEPT ![IndexOf(d, key)].v = val]
    ELSE Append(d, [k |-> key, v |-> val])

\* obj.get(field, default) on a parsed JSON object
RecGet(obj, field, default) == IF field \in DOMAIN obj THEN obj[field] ELSE default
\* Python truthiness of a string-or-None field value:  not x
Falsy(x) == x = None \/ x = ""

(* --------------------------- configuration ---------------------------- *)
ADOPTION_THRESHOLD == Rat(70, 100)
WIN_RATE_THRESHOLD == Rat(75, 100)
CONFIDENCE_THRESHOLD == Rat(70, 100)

(* ------------------------------- state -------------------------------- *)
VARIABLES
    modLog,             \* file MODIFICATIONS_LOG
    outLog,             \* file OUTCOMES_LOG
    confFile,           \* file CONFIDENCE_SCORES
    outWritable,        \* whether OUTPUT_FILE can be created and written
    output,             \* file OUTPUT_FILE
    pc,                 \* position in main()
    modifications,      \* aggregate_modifications: list returned by load_jsonl
    i,                  \* aggregate_modifications: index of the next event
    template_mods,      \* aggregate_modifications: template -> projects, additions
    patterns,           \* result of aggregate_modifications
    win_rates,          \* result of load_template_outcomes
    confidence_scores,  \* result of load_confidence_scores
    g,                  \* generate_proposals: index of the next template
    template_win_rate,  \* generate_proposals: local of the last iteration
    template_confidence,\* generate_proposals: local of the last iteration
    proposals,          \* generate_proposals: list under construction
    proposal_id,        \* generate_proposals: counter
    stdout,             \* console lines of generate_proposals and main
    stderr,             \* exception reported by the top-level handler
    exit_code           \* process exit status, -1 while the process runs

vars == <<modLog, outLog, confFile, outWritable, output, pc, modifications, i,
          template_mods, patterns, win_rates, confidence_scores, g,
          template_win_rate, template_confidence, proposals, proposal_id,
          stdout, stderr, exit_code>>

fileVars == <<modLog, outLog, confFile, outWritable>>
aggVars == <<modifications, i, template_mods, patterns>>
genVars == <<g, template_win_rate, template_confidence, proposals, proposal_id>>

(* ------------------------------ load_jsonl ---------------------------- *)
\* line.strip(): empty for a line of whitespace only
Strip(line) == IF line.kind = "blank" THEN "" ELSE line.kind
\* json.loads(line): a JSONDecodeError or the decoded value
JsonLoads(line) ==
    CASE line.kind = "garbage" -> [ok |-> FALSE]
      [] line.kind = "scalar"  -> [ok |-> TRUE, value |-> [isdict |-> FALSE]]
      [] line.kind = "object"  -> [ok |-> TRUE, value |-> [isdict |-> TRUE, obj |-> line.obj]]

RECURSIVE LoadLines(_)
LoadLines(lines) ==
    IF lines = <<>> THEN <<>>
    ELSE LET line == Head(lines)
             rest == LoadLines(Tail(lines))
         IN  IF Strip(line) = "" THEN rest
             ELSE IF JsonLoads(line).ok THEN <<JsonLoads(line).value>> \o rest
             ELSE rest

load_jsonl(file) == IF ~file.exists THEN <<>> ELSE LoadLines(file.content)

(* ----------------------- aggregate_modifications ---------------------- *)
\* the defaultdict factory of template_mods
NewTemplateMods == [projects |-> {}, additions |-> <<>>]

\* seeded fault: the event is skipped only when both fields are missing
SkipsEventBothMissing(mod) ==
    Falsy(RecGet(mod, "template_id", None)) /\ Falsy(RecGet(mod, "project_path", None))

\* whether the loop body skips the event (line 66)
SkipsEvent(mod) ==
    Falsy(RecGet(mod, "template_id", None)) \/ Falsy(RecGet(mod, "project_path", None))

\* seeded fault: every event type increments the per-path counter
IsAdditionAnyType(mod_type) == TRUE

\* whether the event increments a per-path counter (line 73)
IsAddition(mod_type) == mod_type \in {"directory_added", "file_added"}

\* one iteration of the loop over modifications for a dict event (lines 61-74)
AggregateStep(tm, mod) ==
    LET template_id == RecGet(mod, "template_id", None)
        project_path == RecGet(mod, "project_path", None)
        mod_type == RecGet(mod, "type", None)
        path == RecGet(mod, "path", "")
    IN  IF SkipsEvent(mod) THEN tm
        ELSE LET data == DictGet(tm, template_id, NewTemplateMods)
                 added == [data EXCEPT !.projects = @ \cup {project_path}]
                 counted ==
                     IF IsAddition(mod_type)
                     THEN [added EXCEPT !.additions =
                              DictPut(@, path, DictGet(@, path, 0) + 1)]
                     ELSE added
             IN  DictPut(tm, template_id, counted)

\* adoption rate of one path (line 89)
AdoptionRate(count, total_projects) == Rat(count, total_projects)

\* the second loop: adoption rates per template (lines 77-95)
RECURSIVE CalcPatterns(_)
CalcPatterns(tm) ==
    IF tm = <<>> THEN <<>>
    ELSE LET data == Head(tm).v
             total_projects == Cardinality(data.projects)
             rest == CalcPatterns(Tail(tm))
         IN  IF total_projects = 0 THEN rest
             ELSE <<[k |-> Head(tm).k,
                     v |-> [total_projects |-> total_projects,
                            additions |->
                              [j \in 1..Len(data.additions) |->
                                 [k |-> data.additions[j].k,
                                  v |-> [count |-> data.additions[j].v,
                                         adoption_rate |->
                                           AdoptionRate(data.additions[j].v,
                                                        total_projects)]]]]]>>
                  \o rest

\* the exception reaches the handler at the bottom of the script (lines 258-262)
Abort(exc) ==
    /\ pc' = "exit"
    /\ stderr' = exc
    /\ exit_code' = 1

\* line 52
LoadModifications ==
    /\ pc = "start"
    /\ modifications' = load_jsonl(modLog)
    /\ i' = 1
    /\ pc' = "aggregate"
    /\ UNCHANGED <<fileVars, output, template_mods, patterns, win_rates,
                   confidence_scores, genVars, stdout, stderr, exit_code>>

\* lines 60-74 for an event that is a JSON object
AggregateEvent ==
    /\ pc = "aggregate"
    /\ i <= Len(modifications)
    /\ modifications[i].isdict
    /\ template_mods' = AggregateStep(template_mods, modifications[i].obj)
    /\ i' = i + 1
    /\ UNCHANGED <<fileVars, output, pc, modifications, patterns, win_rates,
                   confidence_scores, genVars, stdout, stderr, exit_code>>

\* line 61 for a decoded value that is not an object: mod.get raises AttributeError
AggregateCrash ==
    /\ pc = "aggregate"
    /\ i <= Len(modifications)
    /\ ~modifications[i].isdict
    /\ Abort("AttributeError")
    /\ UNCHANGED <<fileVars, output, aggVars, win_rates, confidence_scores,
                   genVars, stdout>>

\* lines 76-95 and the return to main (line 226)
CalcAdoption ==
    /\ pc = "aggregate"
    /\ i > Len(modifications)
    /\ patterns' = CalcPatterns(template_mods)
    /\ pc' = "outcomes"
    /\ UNCHANGED <<fileVars, output, modifications, i, template_mods, win_rates,
                   confidence_scores, genVars, stdout, stderr, exit_code>>

(* ----------------------- load_template_outcomes ----------------------- *)
\* the defaultdict factory of template_outcomes
NewOutcomes == [wins |-> 0, total |-> 0]

\* seeded fault: every outcome counts as a win
OutcomeStepAllWins(to, outcome) ==
    LET template_id == RecGet(outcome, "template_id", None)
    IN  IF Falsy(template_id) THEN to
        ELSE LET data == DictGet(to, template_id, NewOutcomes)
             IN  DictPut(to, template_id,
                         [data EXCEPT !.total = @ + 1, !.wins = @ + 1])

\* one iteration of the loop over outcomes (lines 105-115)
OutcomeStep(to, outcome) ==
    LET template_id == RecGet(outcome, "template_id", None)
        outcome_type == RecGet(outcome, "outcome", None)
    IN  IF Falsy(template_id) THEN to
        ELSE LET data == DictGet(to, template_id, NewOutcomes)
                 counted == [data EXCEPT !.total = @ + 1]
                 won == IF outcome_type = "win"
                        THEN [counted EXCEPT !.wins = @ + 1]
                        ELSE counted
             IN  DictPut(to, template_id, won)

RECURSIVE CountOutcomes(_, _)
CountOutcomes(to, outcomes) ==
    IF outcomes = <<>> THEN to
    ELSE CountOutcomes(OutcomeStep(to, Head(outcomes).obj), Tail(outcomes))

\* win rate of one template (lines 120-123)
WinRate(data) == IF data.total > 0 THEN Rat(data.wins, data.total) ELSE Rat(1, 2)

\* lines 118-125
CalcWinRates(to) == [j \in 1..Len(to) |-> [k |-> to[j].k, v |-> WinRate(to[j].v)]]

\* line 230
LoadTemplateOutcomes ==
    /\ pc = "outcomes"
    /\ LET outcomes == load_jsonl(outLog)
       IN  IF \E j \in 1..Len(outcomes) : ~outcomes[j].isdict
           THEN /\ Abort("AttributeError")
                /\ UNCHANGED win_rates
           ELSE /\ win_rates' = CalcWinRates(CountOutcomes(<<>>, outcomes))
                /\ pc' = "confidence"
                /\ UNCHANGED <<stderr, exit_code>>
    /\ UNCHANGED <<fileVars, output, aggVars, confidence_scores, genVars, stdout>>

(* ----------------------- load_confidence_scores ----------------------- *)
\* load_json (lines 40-46): [] for a missing file, the decoded array otherwise
load_json(file) == IF ~file.exists THEN <<>> ELSE file.content

\* lines 133-139
RECURSIVE BuildConfidenceMap(_, _)
BuildConfidenceMap(confidence_map, scores) ==
    IF scores = <<>> THEN confidence_map
    ELSE LET score == Head(scores)
             template_id == RecGet(score, "template_id", None)
             confidence == RecGet(score, "confidence_score", Rat(0, 1))
         IN  BuildConfidenceMap(DictPut(confidence_map, template_id, confidence),
                                Tail(scores))

\* line 234, the file is absent or holds a JSON array of entries
LoadConfidenceScores ==
    /\ pc = "confidence"
    /\ ~(confFile.exists /\ confFile.corrupt)
    /\ confidence_scores' = BuildConfidenceMap(<<>>, load_json(confFile))
    /\ pc' = "generate"
    /\ g' = 1
    /\ proposals' = <<>>
    /\ proposal_id' = 1
    /\ stdout' = Append(stdout, [msg |-> "generating", template_id |-> "",
                                 proposal_id |-> "", n |-> 0])
    /\ UNCHANGED <<fileVars, output, aggVars, win_rates, template_win_rate,
                   template_confidence, stderr, exit_code>>

\* line 46 on a file that is not valid JSON: json.load raises JSONDecodeError
LoadConfidenceFail ==
    /\ pc = "confidence"
    /\ confFile.exists /\ confFile.corrupt
    /\ Abort("JSONDecodeError")
    /\ UNCHANGED <<fileVars, output, aggVars, win_rates, confidence_scores,
                   genVars, stdout>>

(* -------------------------- generate_proposals ------------------------ *)
\* Path(path).suffix for the paths of the input alphabets
PathSuffix(path) == IF path = "cfg.json" THEN ".json" ELSE ""

\* round(x, 4): x to the nearest ten-thousandth, ties to even
Round4(x) ==
    LET q == (x.n * 10000) \div x.d
        r == (x.n * 10000) % x.d
    IN  Rat(IF 2 * r > x.d \/ (2 * r = x.d /\ q % 2 = 1) THEN q + 1 ELSE q, 10000)

DigitStr(digit) ==
    CASE digit = 0 -> "0" [] digit = 1 -> "1" [] digit = 2 -> "2" [] digit = 3 -> "3"
      [] digit = 4 -> "4" [] digit = 5 -> "5" [] digit = 6 -> "6" [] digit = 7 -> "7"
      [] digit = 8 -> "8" [] digit = 9 -> "9"

\* str(n) for n >= 0
RECURSIVE IntStr(_)
IntStr(n) == IF n < 10 THEN DigitStr(n) ELSE IntStr(n \div 10) \o DigitStr(n % 10)

\* pad s with zeros on the left up to width w
RECURSIVE ZeroPad(_, _)
ZeroPad(s, w) == IF Len(s) >= w THEN s ELSE ZeroPad("0" \o s, w)

\* f"{n:04d}"
Format04d(n) == ZeroPad(IntStr(n), 4)

\* int(s) for a one-digit string
IntOfDigit(s) == CHOOSE digit \in 0..9 : DigitStr(digit) = s

\* lines 181-185: "1.0.0".split('.') and the minor bump
CurrentVersion == "1.0.0"
VersionParts == <<"1", "0", "0">>
ProposedVersion == VersionParts[1] \o "." \o IntStr(IntOfDigit(VersionParts[2]) + 1) \o ".0"

\* lines 163-176
RECURSIVE QualifyingChanges(_)
QualifyingChanges(additions) ==
    IF additions = <<>> THEN <<>>
    ELSE LET path == Head(additions).k
             stats == Head(additions).v
             rest == QualifyingChanges(Tail(additions))
         IN  IF RatGe(stats.adoption_rate, ADOPTION_THRESHOLD)
             THEN <<[type |-> IF PathSuffix(path) = "" THEN "directory" ELSE "file",
                     path |-> path,
                     adoption_rate |-> Round4(stats.adoption_rate),
                     projects_count |-> stats.count]>> \o rest
             ELSE rest

\* lines 187-202; rationale and created_at are free text and a clock reading
NewProposal(id, template_id, total_projects, win_rate, confidence, changes) ==
    [proposal_id |-> "PROP-" \o Format04d(id),
     template_id |-> template_id,
     current_version |-> CurrentVersion,
     proposed_version |-> ProposedVersion,
     changes |-> changes,
     metrics |-> [total_projects_analyzed |-> total_projects,
                  win_rate |-> Round4(win_rate),
                  confidence_score |-> Round4(confidence),
                  changes_count |-> Len(changes)],
     status |-> "pending"]

\* the win-rate check (line 154)
FailsWinRate(win_rate) == RatLt(win_rate, WIN_RATE_THRESHOLD)
\* seeded fault: a confidence equal to the threshold is rejected
FailsConfidenceAtThreshold(confidence) == ~RatLt(CONFIDENCE_THRESHOLD, confidence)
\* the confidence check (line 158)
FailsConfidence(confidence) == RatLt(confidence, CONFIDENCE_THRESHOLD)
\* seeded fault: the counter is not advanced
NextProposalIdStuck(id) == id
\* the id of the next proposal (line 205)
NextProposalId(id) == id + 1

Line(msg, template_id, pid, n) ==
    [msg |-> msg, template_id |-> template_id, proposal_id |-> pid, n |-> n]

\* one iteration of the loop over patterns.items() (lines 148-207)
GenerateIteration ==
    /\ pc = "generate"
    /\ g <= Len(patterns)
    /\ LET template_id == patterns[g].k
           data == patterns[g].v
           wr == DictGet(win_rates, template_id, Rat(1, 2))
           conf == DictGet(confidence_scores, template_id, Rat(0, 1))
           changes == QualifyingChanges(data.additions)
       IN  /\ template_win_rate' = wr
           /\ template_confidence' = conf
           /\ IF FailsWinRate(wr)
              THEN /\ stdout' = Append(stdout, Line("skip_win_rate", template_id, "", 0))
                   /\ UNCHANGED <<proposals, proposal_id>>
              ELSE /\ IF FailsConfidence(conf)
                      THEN /\ stdout' = Append(stdout,
                                               Line("skip_confidence", template_id, "", 0))
                           /\ UNCHANGED <<proposals, proposal_id>>
                      ELSE IF changes # <<>>
                      THEN /\ proposals' = Append(proposals,
                                  NewProposal(proposal_id, template_id,
                                              data.total_projects, wr, conf, changes))
                           /\ proposal_id' = NextProposalId(proposal_id)
                           /\ stdout' = Append(stdout,
                                  Line("created", template_id, "", Len(changes)))
                      ELSE UNCHANGED <<proposals, proposal_id, stdout>>
    /\ g' = g + 1
    /\ UNCHANGED <<fileVars, output, pc, aggVars, win_rates, confidence_scores,
                   stderr, exit_code>>

\* generate_proposals has returned to main (line 238)
GenerateReturned(position, index) == position = "generate" /\ index > Len(patterns)

(* --------------------------- save and summary ------------------------- *)
\* json.dump(proposals, f): the document written to OUTPUT_FILE
JsonDump(list) == File(list)

\* lines 241-242 and save_proposals (lines 211-219)
SaveProposals ==
    /\ GenerateReturned(pc, g)
    /\ proposals # <<>>
    /\ outWritable
    /\ output' = JsonDump(proposals)
    /\ stdout' = Append(stdout, Line("saved", "", "", Len(proposals)))
    /\ pc' = "summary"
    /\ UNCHANGED <<fileVars, aggVars, win_rates, confidence_scores, genVars,
                   stderr, exit_code>>

\* lines 214-216 when the directory or the file cannot be created: OSError
SaveProposalsFail ==
    /\ GenerateReturned(pc, g)
    /\ proposals # <<>>
    /\ ~outWritable
    /\ Abort("OSError")
    /\ UNCHANGED <<fileVars, output, aggVars, win_rates, confidence_scores,
                   genVars, stdout>>

\* whether proposal['changes_count'] raises KeyError (line 249)
SummaryKeyError(proposal) == "changes_count" \notin DOMAIN proposal

\* the lines the loop at 248-249 prints before it ends or raises
RECURSIVE SummaryItems(_)
SummaryItems(ps) ==
    IF ps = <<>> \/ SummaryKeyError(Head(ps)) THEN <<>>
    ELSE <<Line("summary_item", Head(ps).template_id, Head(ps).proposal_id,
                Head(ps).changes_count)>> \o SummaryItems(Tail(ps))

\* lines 244-249 and the end of the process
PrintSummary ==
    /\ pc = "summary"
    /\ stdout' = stdout \o <<Line("summary", "", "", Len(proposals))>>
                        \o SummaryItems(proposals)
    /\ pc' = "exit"
    /\ IF \E j \in 1..Len(proposals) : SummaryKeyError(proposals[j])
       THEN /\ stderr' = "KeyError"
            /\ exit_code' = 1
       ELSE /\ exit_code' = 0
            /\ UNCHANGED stderr
    /\ UNCHANGED <<fileVars, output, aggVars, win_rates, confidence_scores, genVars>>

\* seeded fault: the branch without proposals leaves the output untouched
WriteEmptyNoFile ==
    /\ GenerateReturned(pc, g)
    /\ proposals = <<>>
    /\ outWritable
    /\ stdout' = Append(stdout, Line("no_proposals", "", "", 0))
    /\ pc' = "exit"
    /\ exit_code' = 0
    /\ UNCHANGED <<fileVars, output, aggVars, win_rates, confidence_scores,
                   genVars, stderr>>

\* lines 250-255 and the end of the process
WriteEmpty ==
    /\ GenerateReturned(pc, g)
    /\ proposals = <<>>
    /\ outWritable
    /\ stdout' = Append(stdout, Line("no_proposals", "", "", 0))
    /\ output' = JsonDump(<<>>)
    /\ pc' = "exit"
    /\ exit_code' = 0
    /\ UNCHANGED <<fileVars, aggVars, win_rates, confidence_scores, genVars, stderr>>

\* lines 253-254 when the directory or the file cannot be created: OSError
WriteEmptyFail ==
    /\ GenerateReturned(pc, g)
    /\ proposals = <<>>
    /\ ~outWritable
    /\ stdout' = Append(stdout, Line("no_proposals", "", "", 0))
    /\ Abort("OSError")
    /\ UNCHANGED <<fileVars, output, aggVars, win_rates, confidence_scores, genVars>>

(* ----------------------- input alphabets: aggregator ------------------ *)
AggTemplates == {"T1", "T2"}
AggProjects == {"P1", "P2"}
AggPaths == {"hooks/", "cfg.json"}
\* type and path of the events
AggChanges ==
    {<<"directory_added", "hooks/">>, <<"file_added", "cfg.json">>,
     <<"file_modified", "hooks/">>}

AggObjects ==
    {[template_id |-> t, project_path |-> p, type |-> c[1], path |-> c[2]] :
        t \in AggTemplates, p \in AggProjects, c \in AggChanges}
    \cup {[template_id |-> "T1", project_path |-> "P1", type |-> "directory_added"],
          [template_id |-> "T1", type |-> "directory_added", path |-> "hooks/"],
          [project_path |-> "P1", type |-> "file_added", path |-> "cfg.json"]}

AggLines ==
    {[kind |-> "object", obj |-> o] : o \in AggObjects}
    \cup {[kind |-> "blank"], [kind |-> "garbage"], [kind |-> "scalar"]}

InitCommon ==
    /\ output = NoFile
    /\ pc = "start"
    /\ modifications = <<>>
    /\ i = 1
    /\ template_mods = <<>>
    /\ patterns = <<>>
    /\ win_rates = <<>>
    /\ confidence_scores = <<>>
    /\ g = 1
    /\ template_win_rate = Rat(0, 1)
    /\ template_confidence = Rat(0, 1)
    /\ proposals = <<>>
    /\ proposal_id = 1
    /\ stdout = <<>>
    /\ stderr = ""
    /\ exit_code = -1

InitAgg ==
    /\ modLog \in {NoFile} \cup {File(c) : c \in SeqsUpTo(AggLines, MaxAggLines)}
    /\ outLog = NoFile
    /\ confFile = NoFile
    /\ outWritable = TRUE
    /\ InitCommon

NextAgg ==
    \/ LoadModifications
    \/ AggregateEvent
    \/ AggregateCrash
    \/ CalcAdoption

SpecAgg == InitAgg /\ [][NextAgg]_vars

(* ------------------------ input alphabets: run ------------------------ *)
RunTemplates == {"T1", "T2"}

RunModObjects ==
    {[template_id |-> "T1", project_path |-> "P1", type |-> "directory_added",
      path |-> "hooks/"],
     [template_id |-> "T1", project_path |-> "P2", type |-> "directory_added",
      path |-> "hooks/"],
     [template_id |-> "T1", project_path |-> "P2", type |-> "file_modified",
      path |-> "hooks/"],
     [template_id |-> "T2", project_path |-> "P1", type |-> "file_added",
      path |-> "cfg.json"]}

RunModLines == {[kind |-> "object", obj |-> o] : o \in RunModObjects}

RunOutcomeLines ==
    {[kind |-> "object", obj |-> o] :
        o \in {[template_id |-> "T1", outcome |-> "win"],
               [template_id |-> "T1", outcome |-> "loss"],
               [template_id |-> "T2", outcome |-> "win"]}}

\* entries of the confidence source
RunConfT1 ==
    {[template_id |-> "T1", confidence_score |-> Rat(70, 100)],
     [template_id |-> "T1", confidence_score |-> Rat(69, 100)]}
RunConfT2 ==
    {[template_id |-> "T2", confidence_score |-> Rat(85, 100)],
     [template_id |-> "T2"]}
\* arrays of the confidence source: at most one entry per template, or two
\* entries of one template
RunConfArrays ==
    {<<>>}
    \cup {<<e>> : e \in RunConfT1 \cup RunConfT2}
    \cup {<<e1, e2>> : e1 \in RunConfT1, e2 \in RunConfT2}
    \cup {<<e1, e2>> : e1 \in RunConfT1, e2 \in RunConfT1}

Init ==
    /\ modLog \in {NoFile} \cup {File(c) : c \in SeqsUpTo(RunModLines, MaxModLines)}
    /\ outLog \in {NoFile} \cup {File(c) : c \in SeqsUpTo(RunOutcomeLines, MaxOutcomeLines)}
    /\ confFile \in {NoFile, CorruptFile} \cup {File(c) : c \in RunConfArrays}
    /\ outWritable \in BOOLEAN
    /\ InitCommon

Next ==
    \/ LoadModifications
    \/ AggregateEvent
    \/ CalcAdoption
    \/ LoadTemplateOutcomes
    \/ LoadConfidenceScores
    \/ LoadConfidenceFail
    \/ GenerateIteration
    \/ SaveProposals
    \/ SaveProposalsFail
    \/ PrintSummary
    \/ WriteEmpty
    \/ WriteEmptyFail

Spec == Init /\ [][Next]_vars

(* ====================================================================== *)
(*                      Properties of the aggregator                      *)
(* ====================================================================== *)
\* the lines of the modification log
ModLines == modLog.content
\* the line is an event record that carries template_id and project_path
CarriesBoth(line) ==
    /\ line.kind = "object"
    /\ "template_id" \in DOMAIN line.obj
    /\ "project_path" \in DOMAIN line.obj
\* positions of the events of template t that carry both fields
EventsOf(t) ==
    {j \in 1..Len(ModLines) : CarriesBoth(ModLines[j]) /\ ModLines[j].obj.template_id = t}
\* distinct projects among the events of template t
ProjectsIn(t) == {ModLines[j].obj.project_path : j \in EventsOf(t)}
\* positions of the addition events of template t for one path
AdditionEvents(t, path) ==
    {j \in EventsOf(t) :
        /\ "type" \in DOMAIN ModLines[j].obj
        /\ ModLines[j].obj.type \in {"directory_added", "file_added"}
        /\ RecGet(ModLines[j].obj, "path", "") = path}
AllTemplates == AggTemplates \cup RunTemplates
AllPaths == AggPaths \cup {""}

\* aggregate_modifications has returned its patterns
Aggregated == pc = "outcomes"
\* the project set and a per-path counter held for a template during the loop
ProjSet(tm, t) == DictGet(tm, t, NewTemplateMods).projects
Counter(tm, t, path) == DictGet(DictGet(tm, t, NewTemplateMods).additions, path, 0)
\* the loop of aggregate_modifications takes the step for modifications[i]
AggregateTaken == pc = "aggregate" /\ i <= Len(modifications) /\ i' = i + 1

\* C4, state part: the reported total_projects of a template is the number
\* of distinct projects among its events that carry both fields, and a
\* template without such an event is not reported.
C4_TotalState ==
    Aggregated =>
        \A t \in AllTemplates :
            IF ProjectsIn(t) = {} THEN ~Has(patterns, t)
            ELSE /\ Has(patterns, t)
                 /\ DictGet(patterns, t, <<>>).total_projects = Cardinality(ProjectsIn(t))

\* C4, step part: an event of an already-seen project changes no project count.
C4_RepeatStep ==
    AggregateTaken =>
        LET mod == modifications[i].obj
            t == RecGet(mod, "template_id", None)
            p == RecGet(mod, "project_path", None)
        IN  (t # None /\ p # None /\ p \in ProjSet(template_mods, t))
            => \A t2 \in AllTemplates :
                   Cardinality(ProjSet(template_mods', t2))
                       = Cardinality(ProjSet(template_mods, t2))

\* C4: total_projects equals the number of distinct project_path values among
\* the events of the template that carry template_id and project_path, and
\* repeating an event of an already-seen project never changes it.
C4_TotalProjects == [](C4_TotalState) /\ [][C4_RepeatStep]_vars

\* C4 witness: a template reported with one project although two of its
\* events name that project.
C4_Witness ==
    /\ Aggregated
    /\ \E t \in AllTemplates :
          /\ Cardinality(EventsOf(t)) = 2
          /\ Has(patterns, t)
          /\ DictGet(patterns, t, <<>>).total_projects = 1

\* C2: every (template, path) entry has an adoption_rate within [0,1] that
\* equals the additions to the path over total_projects, also when one
\* project emits several addition events for the path; a template without
\* projects has no entry.
C2_AdoptionRate ==
    Aggregated =>
        \A e \in 1..Len(patterns) :
            LET t == patterns[e].k
                data == patterns[e].v
            IN  /\ data.total_projects > 0
                /\ \A a \in 1..Len(data.additions) :
                      LET rate == data.additions[a].v.adoption_rate
                      IN  /\ RatGe(rate, Rat(0, 1))
                          /\ RatGe(Rat(1, 1), rate)
                          /\ RatEq(rate,
                                   Rat(Cardinality(AdditionEvents(t, data.additions[a].k)),
                                       data.total_projects))

\* C6: empty lines, lines that are not a structured record and records
\* lacking template_id or project_path are dropped without aborting the run:
\* the patterns are those of the log without these lines.
C6_Cleaned == SelectSeq(ModLines, CarriesBoth)
RECURSIVE C6_Fold(_, _)
C6_Fold(tm, lines) ==
    IF lines = <<>> THEN tm
    ELSE C6_Fold(AggregateStep(tm, Head(lines).obj), Tail(lines))
C6_TolerantParsing ==
    /\ exit_code # 1
    /\ Aggregated => patterns = CalcPatterns(C6_Fold(<<>>, C6_Cleaned))

\* C10: an event with template_id and project_path whose type is not an
\* addition adds its project to the template's project set, raising
\* total_projects and lowering each adoption_rate of the template when the
\* project is new, and changes no per-path counter; an event of any type
\* leaves the project sets and counters of the other templates unchanged.
C10_Rate(tm, t, path) ==
    DictGet(DictGet(CalcPatterns(tm), t, <<>>).additions, path, <<>>).adoption_rate
C10_Step ==
    AggregateTaken =>
        LET mod == modifications[i].obj
            t == RecGet(mod, "template_id", None)
            p == RecGet(mod, "project_path", None)
            isOther == RecGet(mod, "type", None) \notin {"directory_added", "file_added"}
        IN  /\ (t # None /\ p # None /\ isOther) =>
                  /\ ProjSet(template_mods', t) = ProjSet(template_mods, t) \cup {p}
                  /\ \A t2 \in AllTemplates, path \in AllPaths :
                        Counter(template_mods', t2, path) = Counter(template_mods, t2, path)
                  /\ p \notin ProjSet(template_mods, t) =>
                        /\ Cardinality(ProjSet(template_mods', t))
                              = Cardinality(ProjSet(template_mods, t)) + 1
                        /\ \A path \in AllPaths :
                              Counter(template_mods, t, path) > 0 =>
                                  RatLt(C10_Rate(template_mods', t, path),
                                        C10_Rate(template_mods, t, path))
            /\ \A t2 \in AllTemplates \ {t}, path \in AllPaths :
                  /\ ProjSet(template_mods', t2) = ProjSet(template_mods, t2)
                  /\ Counter(template_mods', t2, path) = Counter(template_mods, t2, path)
C10_OtherEventFrame == [][C10_Step]_vars

\* C10 witness: the loop has just processed a non-addition event of a new
\* project for a template that already tracks a path.
C10_Witness ==
    /\ pc = "aggregate"
    /\ i = 3
    /\ modifications[1].isdict /\ modifications[2].isdict
    /\ LET first == modifications[1].obj
           second == modifications[2].obj
       IN  /\ CarriesBoth([kind |-> "object", obj |-> first])
           /\ CarriesBoth([kind |-> "object", obj |-> second])
           /\ RecGet(first, "type", None) = "file_added"
           /\ RecGet(second, "type", None) = "file_modified"
           /\ second.template_id = first.template_id
           /\ second.project_path # first.project_path
           /\ second.project_path \in ProjSet(template_mods, first.template_id)
           /\ Cardinality(ProjSet(template_mods, first.template_id)) = 2
           /\ Counter(template_mods, first.template_id, RecGet(first, "path", "")) = 1

(* ====================================================================== *)
(*                      Properties of the whole run                       *)
(* ====================================================================== *)
\* positions of the outcome events of template t in the outcome log
OutcomesOf(t) ==
    {j \in 1..Len(outLog.content) :
        /\ outLog.content[j].kind = "object"
        /\ RecGet(outLog.content[j].obj, "template_id", None) = t}
\* positions of the winning outcome events of template t
WinsOf(t) == {j \in OutcomesOf(t) : RecGet(outLog.content[j].obj, "outcome", None) = "win"}
\* win rate of template t as the outcome log states it, 0.5 without events
LoggedWinRate(t) ==
    IF OutcomesOf(t) = {} THEN Rat(1, 2)
    ELSE Rat(Cardinality(WinsOf(t)), Cardinality(OutcomesOf(t)))
\* positions of the entries of template t in the confidence source
ConfEntriesOf(t) ==
    {j \in 1..Len(confFile.content) : RecGet(confFile.content[j], "template_id", None) = t}
\* confidence of template t as the confidence source states it, 0.0 without entry
SourceConfidence(t) ==
    IF ConfEntriesOf(t) = {} THEN Rat(0, 1)
    ELSE LET last == CHOOSE j \in ConfEntriesOf(t) : \A j2 \in ConfEntriesOf(t) : j2 <= j
         IN  RecGet(confFile.content[last], "confidence_score", Rat(0, 1))
\* some tracked addition path of template t reaches the adoption threshold
HasAdoptedPath(t) ==
    /\ Has(patterns, t)
    /\ \E a \in 1..Len(DictGet(patterns, t, <<>>).additions) :
          RatGe(DictGet(patterns, t, <<>>).additions[a].v.adoption_rate, Rat(7, 10))
\* positions of the proposals for template t
ProposalsFor(t) == {k \in 1..Len(proposals) : proposals[k].template_id = t}
\* generate_proposals has returned; its result stays in proposals
Generated ==
    \/ GenerateReturned(pc, g)
    \/ pc = "summary"
    \/ pc = "exit" /\ stderr \notin {"JSONDecodeError", "AttributeError"}
\* generate_proposals has run the iteration for the template at position g - 1
Iterated == g > 1 /\ (pc = "generate" \/ Generated)

\* C1: after generate_proposals a template of the modification profile has a
\* proposal iff its win rate (0.5 without outcome events) is at least 0.75,
\* its confidence (0.0 without entry) is at least 0.70 and one of its tracked
\* paths has an adoption rate of at least 0.70; other templates have none.
C1_ProposalIff ==
    Generated =>
        \A t \in AllTemplates :
            ProposalsFor(t) # {} <=>
                /\ Has(patterns, t)
                /\ RatGe(LoggedWinRate(t), Rat(3, 4))
                /\ RatGe(SourceConfidence(t), Rat(7, 10))
                /\ HasAdoptedPath(t)

\* C1 witness: of two profiled templates one got a proposal with a confidence
\* of exactly 0.70 and the other got none.
C1_Witness ==
    /\ Generated
    /\ Len(patterns) = 2
    /\ Len(proposals) = 1
    /\ RatEq(SourceConfidence(proposals[1].template_id), Rat(7, 10))

\* C5: the k-th proposal carries the id PROP-000k, the proposals follow the
\* iteration order of the templates, and the counter is one past the number
\* of proposals, so a skipped template consumes no id.
C5_ExpectedId == <<"PROP-0001", "PROP-0002", "PROP-0003", "PROP-0004">>
C5_SequentialIds ==
    /\ proposal_id = Len(proposals) + 1
    /\ \A k \in 1..Len(proposals) :
          /\ k <= Len(C5_ExpectedId) => proposals[k].proposal_id = C5_ExpectedId[k]
          /\ \A k2 \in 1..Len(proposals) :
                k < k2 =>
                    /\ proposals[k].proposal_id # proposals[k2].proposal_id
                    /\ IndexOf(patterns, proposals[k].template_id)
                          < IndexOf(patterns, proposals[k2].template_id)

\* C5 witness: the first template was skipped and the second one got the
\* first id.
C5_Witness ==
    /\ Generated
    /\ Len(patterns) = 2
    /\ Len(proposals) = 1
    /\ proposals[1].template_id = patterns[2].k
    /\ proposals[1].proposal_id = "PROP-0001"

\* C7: a template without outcome events is not skipped by the win-rate
\* check, and it gets a proposal only when confidence and adoption allow it.
C7_NeutralDefault ==
    \A t \in AllTemplates :
        OutcomesOf(t) = {} =>
            /\ \A j \in 1..Len(stdout) :
                  ~(stdout[j].msg = "skip_win_rate" /\ stdout[j].template_id = t)
            /\ ProposalsFor(t) # {} =>
                  RatGe(SourceConfidence(t), Rat(7, 10)) /\ HasAdoptedPath(t)

\* C8: the win rate used for a template without outcome events is exactly
\* 0.5, the confidence used for a template without entry is exactly 0.0, and
\* the win rate used for a template with outcome events is wins/total.
C8_Defaults ==
    Iterated =>
        LET t == patterns[g - 1].k
        IN  /\ OutcomesOf(t) = {} =>
                  template_win_rate.n * 2 = template_win_rate.d
            /\ ConfEntriesOf(t) = {} => template_confidence.n = 0
            /\ OutcomesOf(t) # {} =>
                  RatEq(template_win_rate,
                        Rat(Cardinality(WinsOf(t)), Cardinality(OutcomesOf(t))))

\* C8 witness: the second iteration used wins/total = 1/2 for its template
\* while the first template has neither outcome events nor a confidence entry.
C8_Witness ==
    /\ pc = "generate"
    /\ g = 3
    /\ OutcomesOf(patterns[1].k) = {}
    /\ ConfEntriesOf(patterns[1].k) = {}
    /\ Cardinality(OutcomesOf(patterns[2].k)) = 2
    /\ Cardinality(WinsOf(patterns[2].k)) = 1
    /\ RatEq(template_win_rate, Rat(1, 2))

\* the inputs are readable and well formed
WellFormedInputs == ~confFile.corrupt
\* the final summary lists the proposal at position k
Summarised(k) ==
    \E j \in 1..Len(stdout) :
        /\ stdout[j].msg = "summary_item"
        /\ stdout[j].proposal_id = proposals[k].proposal_id

\* C3: with well-formed inputs and a writable output path the run ends with
\* exit code 0, after a summary of every proposal when there are proposals;
\* exit code 1 comes only from an unhandled failure.
C3_ExitZero ==
    /\ (pc = "exit" /\ WellFormedInputs /\ outWritable) =>
          /\ exit_code = 0
          /\ \A k \in 1..Len(proposals) : Summarised(k)
    /\ exit_code = 1 => stderr # ""

\* C9 as stated: every run whose stages up to proposal generation complete
\* leaves the list of proposals, in generation order, in the output, an empty
\* array when there is none, and then ends with exit code 0.
C9_OutputWritten ==
    (pc = "exit" /\ Generated) =>
        /\ output = File(proposals)
        /\ proposals = <<>> => exit_code = 0

\* C9 amended: the same for every such run whose output path is writable.
C9_OutputWrittenIfWritable ==
    (pc = "exit" /\ Generated /\ outWritable) =>
        /\ output = File(proposals)
        /\ proposals = <<>> => exit_code = 0

\* C9 witness: a run with a writable output path ended with the empty array
\* in the output although the modification log held events.
C9_Witness ==
    /\ pc = "exit"
    /\ outWritable
    /\ patterns # <<>>
    /\ proposals = <<>>
    /\ output = File(<<>>)
    /\ exit_code = 0

=============================================================================
